---- MODULE Spec2Model ----
(***************************************************************************)
(* A model of src/fs.rs of rv: copy_folder, mtime_recursive and            *)
(* untar_archive, over an explicit filesystem.                             *)
(*                                                                         *)
(* A path is a sequence of names; the filesystem fs maps every existing    *)
(* path to a node [kind, data, mtime, target].  The libraries the code     *)
(* calls (std::fs, walkdir, zip, tar, flate2, sha2) are modelled by what   *)
(* the code relies on; every system call may also fail with an I/O error,  *)
(* which the calling action draws with \E.                                 *)
(***************************************************************************)
EXTENDS Integers, Sequences, FiniteSets, TLC

VARIABLES
    fs,       \* the filesystem: existing path -> node
    pc,       \* where the running call stands: idle, copy, mtime, u_read, u_match, u_extract, u_list, done
    call,     \* the arguments of the running call
    walk,     \* the entries the running iterator has still to yield
    max_mtime, \* mtime_recursive: the max of the iterator chain so far (NoTime: None)
    buffer,   \* untar_archive: the bytes read_to_end returned
    hash,     \* untar_archive: the local `hash` (<<>>: None)
    result,   \* what the call returned
    fs0,      \* history: the filesystem when the call was entered
    hist      \* history: what each step of the call did, in order

vars == <<fs, pc, call, walk, max_mtime, buffer, hash, result, fs0, hist>>

----------------------------------------------------------------------------
(* Bounds of the model *)

\* mtimes range over 1..MaxTime
MaxTime == 3
\* an input stream holds at most MaxBytes bytes
MaxBytes == 4

----------------------------------------------------------------------------
(* Paths and nodes *)

NoPath == <<"!">>
NoHash == <<>>
NoTime == 0

\* the clock value a create or a write stamps on the node it makes
Now == MaxTime

Max(a, b) == IF a >= b THEN a ELSE b

Parent(p) == SubSeq(p, 1, Len(p) - 1)
Last(p) == p[Len(p)]
IsPrefix(p, q) == Len(p) <= Len(q) /\ SubSeq(q, 1, Len(p)) = p
Under(p, q) == IsPrefix(p, q) /\ p # q
Join(p, rel) == p \o rel
StripPrefix(p, base) == SubSeq(p, Len(base) + 1, Len(p))

DirNode == [kind |-> "dir", data |-> 0, mtime |-> Now, target |-> <<>>]
FileNode(d) == [kind |-> "file", data |-> d, mtime |-> Now, target |-> <<>>]

\* how many symlinks one path resolution follows before it gives up (ELOOP)
LinkFuel == 2

\* path resolution, following every symlink: cur is resolved, rest is still to walk
RECURSIVE Resolve(_, _, _, _)
Resolve(f, cur, rest, fuel) ==
    IF rest = <<>> THEN cur
    ELSE LET nxt == Append(cur, Head(rest)) IN
         IF nxt \notin DOMAIN f THEN NoPath
         ELSE IF f[nxt].kind = "symlink"
              THEN IF fuel = 0 THEN NoPath
                   ELSE Resolve(f, <<>>, f[nxt].target \o Tail(rest), fuel - 1)
              ELSE Resolve(f, nxt, Tail(rest), fuel)

\* stat: the node a path names, symlinks followed (NoPath: the stat fails)
Stat(f, p) == Resolve(f, <<>>, p, LinkFuel)

\* lstat: the node a path names, a final symlink not followed
LStat(f, p) ==
    LET par == Resolve(f, <<>>, Parent(p), LinkFuel) IN
    IF p = <<>> \/ par = NoPath \/ Append(par, Last(p)) \notin DOMAIN f
    THEN NoPath ELSE Append(par, Last(p))

IsDir(f, p) == Stat(f, p) # NoPath /\ (Stat(f, p) = <<>> \/ f[Stat(f, p)].kind = "dir")
IsFile(f, p) == Stat(f, p) \notin {NoPath, <<>>} /\ f[Stat(f, p)].kind = "file"

\* the names a directory lists
Children(f, d) == {q[Len(q)] : q \in {r \in DOMAIN f : Len(r) = Len(d) + 1 /\ Parent(r) = d}}

\* a listing order is a sequence holding every name once; a directory lists its
\* children in that order
Names == {"a", "b"}
ListingOrders == {o \in [1..Cardinality(Names) -> Names] : \A n \in Names : \E i \in DOMAIN o : o[i] = n}
Listing(f, d, order) == SelectSeq(order, LAMBDA n : n \in Children(f, d))

----------------------------------------------------------------------------
(* std::fs *)

\* the prefixes of p that do not exist, shortest first
Missing(f, p) == SelectSeq([i \in 1..Len(p) |-> SubSeq(p, 1, i)], LAMBDA q : q \notin DOMAIN f)

RECURSIVE MkDirs(_, _)
MkDirs(f, ps) ==
    IF ps = <<>> THEN f
    ELSE MkDirs([q \in DOMAIN f \cup {Head(ps)} |-> IF q = Head(ps) THEN DirNode ELSE f[q]], Tail(ps))

\* fs::create_dir_all(p).  io = -1: no I/O error; io = k >= 0: the (k+1)-th mkdir
\* fails, after k directories were made.  It also fails when a prefix of p
\* exists and is not a directory.
CreateDirAll(f, p, io) ==
    LET miss == Missing(f, p)
        base == IF miss = <<>> THEN p ELSE Parent(Head(miss))
        n == IF io >= 0 /\ io < Len(miss) THEN io ELSE Len(miss)
    IN  IF ~IsDir(f, base) THEN [ok |-> FALSE, fs |-> f]
        ELSE [ok |-> (n = Len(miss)), fs |-> MkDirs(f, SubSeq(miss, 1, n))]

\* the I/O outcomes create_dir_all(p) can have on f
DirIo(f, p) == {-1} \cup (0..(Len(Missing(f, p)) - 1))

\* the data a partly written file holds
Partial == 0

\* fs::copy(src, dst): src must name a regular file (symlinks followed), dst's
\* parent must be a directory and dst must not be a directory; dst is created or
\* truncated and rewritten.  io: "ok", "err" (fails before dst is opened) or
\* "partial" (fails while writing: dst is left with part of the content).
WriteFile(f, dst, d) == [q \in DOMAIN f \cup {dst} |-> IF q = dst THEN FileNode(d) ELSE f[q]]

FsCopy(f, src, dst, io) ==
    IF \/ io = "err"
       \/ ~IsFile(f, src)
       \/ ~IsDir(f, Parent(dst))
       \/ (dst \in DOMAIN f /\ f[dst].kind # "file")
    THEN [ok |-> FALSE, fs |-> f]
    ELSE IF io = "partial" THEN [ok |-> FALSE, fs |-> WriteFile(f, dst, Partial)]
    ELSE [ok |-> TRUE, fs |-> WriteFile(f, dst, f[Stat(f, src)].data)]

CopyIo == {"ok", "err", "partial"}

----------------------------------------------------------------------------
(* walkdir *)

\* how deep a walk descends: no tree of the model is deeper
WalkFuel == 4

\* the canonical directories on the way from the root of the walk down to p
Ancestors(f, root, p) ==
    {Stat(f, SubSeq(p, 1, i)) : i \in Len(root)..(Len(p) - 1)}

\* WalkDir::new(root).follow_links(follow) from p on, a directory before its
\* contents, siblings in listing order.  An entry is [path, kind, sym, err]:
\* kind is file_type() (of the target when a link was followed), sym is
\* path_is_symlink(), err says that the iterator yields an error for it (a
\* broken link, or a link back to a directory the walk is inside).  The entries
\* are those of the tree as it is when the iterator is made: no call writes
\* below the root it walks (copy_folder's `to` lies outside `from`).
RECURSIVE WalkFrom(_, _, _, _, _, _)
WalkFrom(f, root, p, follow, order, fuel) ==
    LET l == LStat(f, p)
        sym == l # NoPath /\ f[l].kind = "symlink"
        t == IF sym /\ follow THEN Stat(f, p) ELSE l
        bad == t = NoPath \/ (sym /\ follow /\ f[t].kind = "dir" /\ t \in Ancestors(f, root, p))
        kind == IF t = NoPath THEN "none" ELSE f[t].kind
        entry == [path |-> p, kind |-> kind, sym |-> sym, err |-> bad]
        RECURSIVE Kids(_)
        Kids(ns) == IF ns = <<>> THEN <<>>
                    ELSE WalkFrom(f, root, Append(p, Head(ns)), follow, order, fuel - 1) \o Kids(Tail(ns))
    IN  IF bad \/ kind # "dir" \/ fuel = 0 THEN <<entry>>
        ELSE <<entry>> \o Kids(Listing(f, t, order))

WalkDir(f, root, follow, order) == WalkFrom(f, root, root, follow, order, WalkFuel)

----------------------------------------------------------------------------
(* The calls *)

NoResult == [kind |-> "none", path |-> NoPath, hash |-> NoHash, time |-> NoTime, msg |-> ""]
Ok(path, h, t) == [kind |-> "ok", path |-> path, hash |-> h, time |-> t, msg |-> ""]
Err(msg) == [kind |-> "err", path |-> NoPath, hash |-> NoHash, time |-> NoTime, msg |-> msg]
Panic(msg) == [kind |-> "panic", path |-> NoPath, hash |-> NoHash, time |-> NoTime, msg |-> msg]

NoCall == [op |-> "none", from |-> <<>>, to |-> <<>>, folder |-> <<>>, meta |-> NoTime,
           dest |-> <<>>, compute_hash |-> FALSE, reader |-> <<>>, archive |-> <<>>]

\* a call ends: its result is set and nothing of it runs any more
Finish(r) ==
    /\ pc' = "done"
    /\ result' = r
    /\ walk' = <<>>

\* the caller takes the result; the next call can start
Return ==
    /\ pc = "done"
    /\ pc' = "idle"
    /\ call' = NoCall
    /\ result' = NoResult
    /\ max_mtime' = NoTime
    /\ buffer' = <<>>
    /\ hash' = NoHash
    /\ hist' = <<>>
    /\ fs0' = fs
    /\ UNCHANGED <<fs, walk>>

----------------------------------------------------------------------------
(* copy_folder *)

SrcRoot == <<"s">>
DstRoot == <<"t">>

\* for entry in WalkDir::new(from)
CopyWalk(f, from, order) == WalkDir(f, from, FALSE, order)

CopyCall ==
    /\ pc = "idle"
    /\ \E order \in ListingOrders :
         walk' = CopyWalk(fs, SrcRoot, order)
    /\ pc' = "copy"
    /\ call' = [NoCall EXCEPT !.op = "copy_folder", !.from = SrcRoot, !.to = DstRoot]
    /\ fs0' = fs
    /\ hist' = <<>>
    /\ result' = NoResult
    /\ UNCHANGED <<fs, max_mtime, buffer, hash>>

\* faulty variant: the entry lands in `to` under its file name, its directories dropped
out_path_flat(from, to, path) == IF path = from THEN to ELSE Append(to, Last(path))

\* to.join(path.strip_prefix(from))
out_path(from, to, path) == Join(to, StripPrefix(path, from))

\* faulty variant: the error of a step is dropped and the loop goes on
CopyTryIgnore(ok) == walk' = Tail(walk) /\ UNCHANGED <<pc, result>>

\* the `?` of create_dir_all(..)? and copy(..)?: go on, or return the error
CopyTry(ok) ==
    IF ok THEN walk' = Tail(walk) /\ UNCHANGED <<pc, result>>
    ELSE Finish(Err("io"))

Did(e, what, ok) == [path |-> e.path, kind |-> e.kind, sym |-> e.sym, what |-> what, ok |-> ok]

\* one turn of the loop: the entry, then create_dir_all or copy; `?` returns the
\* first error
CopyStep ==
    /\ pc = "copy"
    /\ walk # <<>>
    /\ LET e == Head(walk)
           out == out_path(call.from, call.to, e.path)
       IN  \/ \* the iterator yields an error: e.err, or an I/O error of the walk
              /\ hist' = Append(hist, Did(e, "walk", FALSE))
              /\ Finish(Err("io"))
              /\ UNCHANGED fs
           \/ /\ ~e.err
              /\ e.kind = "dir"
              /\ \E io \in DirIo(fs, out) :
                   LET r == CreateDirAll(fs, out, io) IN
                   /\ fs' = r.fs
                   /\ hist' = Append(hist, Did(e, "create_dir_all", r.ok))
                   /\ CopyTry(r.ok)
           \/ /\ ~e.err
              /\ e.kind # "dir"
              /\ \E io \in CopyIo :
                   LET r == FsCopy(fs, e.path, out, io) IN
                   /\ fs' = r.fs
                   /\ hist' = Append(hist, Did(e, "copy", r.ok))
                   /\ CopyTry(r.ok)
    /\ UNCHANGED <<call, max_mtime, buffer, hash, fs0>>

\* the walk is over: Ok(())
CopyDone ==
    /\ pc = "copy"
    /\ walk = <<>>
    /\ Finish(Ok(NoPath, NoHash, NoTime))
    /\ UNCHANGED <<fs, call, max_mtime, buffer, hash, fs0, hist>>

----------------------------------------------------------------------------
(* mtime_recursive *)

ExtFile == <<"x">>
Gone == <<"g">>
MtimeArgs == {SrcRoot, ExtFile, Gone}

\* WalkDir::new(folder).follow_links(true)
MtimeWalk(f, folder, order) == WalkDir(f, folder, TRUE, order)

\* metadata(folder)?, the is_dir test, and the iterator chain set up
MtimeCall ==
    /\ pc = "idle"
    /\ \E folder \in MtimeArgs, io \in {"ok", "err"}, order \in ListingOrders :
         LET m == Stat(fs, folder) IN
         /\ hist' = <<[path |-> folder, kind |-> "root", sym |-> FALSE, what |-> "metadata",
                       ok |-> (io = "ok" /\ m # NoPath), lst |-> FALSE, st |-> (io = "ok" /\ m # NoPath)]>>
         /\ IF io = "err" \/ m = NoPath
            THEN /\ Finish(Err("io"))
                 /\ call' = [NoCall EXCEPT !.op = "mtime_recursive", !.folder = folder]
            ELSE IF fs[m].kind # "dir"
            THEN /\ Finish(Ok(NoPath, NoHash, fs[m].mtime))
                 /\ call' = [NoCall EXCEPT !.op = "mtime_recursive", !.folder = folder,
                                           !.meta = fs[m].mtime]
            ELSE /\ pc' = "mtime"
                 /\ walk' = MtimeWalk(fs, folder, order)
                 /\ result' = NoResult
                 /\ call' = [NoCall EXCEPT !.op = "mtime_recursive", !.folder = folder,
                                           !.meta = fs[m].mtime]
    /\ fs0' = fs
    /\ max_mtime' = NoTime
    /\ UNCHANGED <<fs, buffer, hash>>

\* faulty variant: a link yields the mtime of its target alone
EntryMtimeTargetOnly(f, e, lst, st) ==
    IF ~st THEN NoTime
    ELSE IF e.sym THEN f[Stat(f, e.path)].mtime
    ELSE f[LStat(f, e.path)].mtime

\* the closure of the second filter_map: the mtime an entry yields (NoTime: None).
\* lst and st say whether symlink_metadata and e.metadata() succeed.
EntryMtime(f, e, lst, st) ==
    IF e.sym
    THEN IF ~lst THEN NoTime
         ELSE LET sym_mtime == f[LStat(f, e.path)].mtime IN
              IF st THEN Max(sym_mtime, f[Stat(f, e.path)].mtime)
              ELSE sym_mtime
    ELSE IF ~st THEN NoTime
         ELSE f[LStat(f, e.path)].mtime

\* .max() over the Some values seen so far
FoldMax(a, t) == IF t = NoTime THEN a ELSE Max(a, t)

\* the walk does not descend below an entry it could not read or list
DropBelow(w, p) == SelectSeq(w, LAMBDA x : ~Under(p, x.path))

\* the iterator chain pulls one entry through filter_map(ok), the closure and max.
\* ls says whether a directory entry can be listed: if not, the walk yields an
\* error after the entry, which filter_map(ok) drops.
MtimeStep ==
    /\ pc = "mtime"
    /\ walk # <<>>
    /\ LET e == Head(walk) IN
       \/ \* e.ok() is None: e.err, or an I/O error of the walk
          /\ hist' = Append(hist, [path |-> e.path, kind |-> e.kind, sym |-> e.sym,
                                   what |-> "walk", ok |-> FALSE, lst |-> FALSE, st |-> FALSE])
          /\ walk' = DropBelow(Tail(walk), e.path)
          /\ UNCHANGED max_mtime
       \/ /\ ~e.err
          /\ \E lst \in BOOLEAN, st \in BOOLEAN, ls \in BOOLEAN :
               /\ lst => LStat(fs, e.path) # NoPath
               /\ (~e.sym) => (lst = st)
               /\ st => (IF e.sym THEN Stat(fs, e.path) ELSE LStat(fs, e.path)) # NoPath
               /\ (e.kind # "dir") => ls
               /\ max_mtime' = FoldMax(max_mtime, EntryMtime(fs, e, lst, st))
               /\ hist' = Append(hist, [path |-> e.path, kind |-> e.kind, sym |-> e.sym,
                                        what |-> "entry", ok |-> ls, lst |-> lst, st |-> st])
               /\ walk' = IF ls THEN Tail(walk) ELSE DropBelow(Tail(walk), e.path)
    /\ UNCHANGED <<fs, pc, call, buffer, hash, result, fs0>>

\* faulty variant: no fallback: a walk that yields no timestamp is an error
MtimeResultNoFallback(a, meta) == IF a = NoTime THEN Err("io") ELSE Ok(NoPath, NoHash, a)

\* .max().unwrap_or_else(|| FileTime::from_last_modification_time(&meta)), Ok(max_mtime)
MtimeResult(a, meta) == Ok(NoPath, NoHash, IF a = NoTime THEN meta ELSE a)

MtimeDone ==
    /\ pc = "mtime"
    /\ walk = <<>>
    /\ Finish(MtimeResult(max_mtime, call.meta))
    /\ UNCHANGED <<fs, call, max_mtime, buffer, hash, fs0, hist>>

----------------------------------------------------------------------------
(* untar_archive *)

\* the bytes the match arms compare the prefix with
ZipMagic == <<80, 75, 3, 4>>     \* [0x50, 0x4b, 0x03, 0x04]
GzMagic == <<31, 139>>           \* [0x1F, 0x8B, ..]

\* Sha256 is the sha2 crate's; the model keeps its shape, a function from the
\* bytes to DigestLen bytes that depends on every byte and on the length
DigestLen == 32
RECURSIVE Mix(_, _)
Mix(h, bytes) == IF bytes = <<>> THEN h ELSE Mix((h * 31 + Head(bytes) + 1) % 65536, Tail(bytes))
Sha256(bytes) ==
    LET m == Mix(5381, bytes) IN
    [i \in 1..DigestLen |-> (m * i + (m \div 256) + i) % 256]

\* format!("{hash_out:x}"): two lowercase hex digits a byte
HexDigits == <<"0", "1", "2", "3", "4", "5", "6", "7", "8", "9", "a", "b", "c", "d", "e", "f">>
RECURSIVE HexLower(_)
HexLower(bytes) ==
    IF bytes = <<>> THEN <<>>
    ELSE <<HexDigits[(Head(bytes) \div 16) + 1], HexDigits[(Head(bytes) % 16) + 1]>> \o HexLower(Tail(bytes))

\* faulty variant: format!("{hash_out:X}")
HexDigitsUpper == <<"0", "1", "2", "3", "4", "5", "6", "7", "8", "9", "A", "B", "C", "D", "E", "F">>
RECURSIVE HexUpper(_)
HexUpper(bytes) ==
    IF bytes = <<>> THEN <<>>
    ELSE <<HexDigitsUpper[(Head(bytes) \div 16) + 1], HexDigitsUpper[(Head(bytes) % 16) + 1]>>
         \o HexUpper(Tail(bytes))
HashOfUpper(compute_hash, buf) == IF compute_hash THEN HexUpper(Sha256(buf)) ELSE NoHash

\* lines 121-129: hash stays None unless compute_hash
HashOf(compute_hash, buf) == IF compute_hash THEN HexLower(Sha256(buf)) ELSE NoHash

\* faulty variant: the last arm hands every other buffer to the tar reader
ClassifyTarByDefault(buf) ==
    IF Len(buf) < 4 THEN "panic"
    ELSE IF SubSeq(buf, 1, 4) = ZipMagic THEN "zip"
    ELSE "gz"

\* match buffer[..4]: the arm taken; the slice panics on a shorter buffer
Classify(buf) ==
    IF Len(buf) < 4 THEN "panic"
    ELSE IF SubSeq(buf, 1, 4) = ZipMagic THEN "zip"
    ELSE IF SubSeq(buf, 1, 2) = GzMagic THEN "gz"
    ELSE "other"

UntarDests == {DstRoot, <<"t", "a">>}

\* the streams a reader yields: each byte one of the bytes an arm compares that
\* position with, or 0
StreamByte(i) ==
    {0} \cup (IF i <= Len(ZipMagic) THEN {ZipMagic[i]} ELSE {})
        \cup (IF i <= Len(GzMagic) THEN {GzMagic[i]} ELSE {})
RECURSIVE StreamsOfLen(_)
StreamsOfLen(n) ==
    IF n = 0 THEN {<<>>}
    ELSE {Append(st, b) : st \in StreamsOfLen(n - 1), b \in StreamByte(n)}
Streams == UNION {StreamsOfLen(n) : n \in 0..MaxBytes}

\* what the zip or tar reader decodes from a buffer: entries in archive order
ADir(p) == [path |-> p, kind |-> "dir", data |-> 0]
AFile(p, d) == [path |-> p, kind |-> "file", data |-> d]
Archives ==
    { <<>>,
      <<ADir(<<"a">>), AFile(<<"a", "b">>, 3)>>,
      <<AFile(<<"b">>, 3)>>,
      <<AFile(<<"b">>, 3), ADir(<<"a">>)>>,
      <<ADir(<<"b">>), ADir(<<"a">>)>> }

\* fs::create_dir_all(dest)?
UntarCall ==
    /\ pc = "idle"
    /\ \E dest \in UntarDests, compute_hash \in BOOLEAN, reader \in Streams :
         /\ call' = [NoCall EXCEPT !.op = "untar_archive", !.dest = dest,
                                   !.compute_hash = compute_hash, !.reader = reader]
         /\ \E io \in DirIo(fs, dest) :
              LET r == CreateDirAll(fs, dest, io) IN
              /\ fs' = r.fs
              /\ hist' = <<[path |-> dest, kind |-> "dir", sym |-> FALSE,
                            what |-> "create_dir_all", ok |-> r.ok]>>
              /\ IF r.ok
                 THEN pc' = "u_read" /\ result' = NoResult /\ UNCHANGED walk
                 ELSE Finish(Err("io"))
    /\ fs0' = fs
    /\ UNCHANGED <<max_mtime, buffer, hash>>

\* reader.read_to_end(&mut buffer)?, then the hash
UntarRead ==
    /\ pc = "u_read"
    /\ \/ /\ buffer' = call.reader
          /\ hash' = HashOf(call.compute_hash, buffer')
          /\ pc' = "u_match"
          /\ hist' = Append(hist, [path |-> <<>>, kind |-> "reader", sym |-> FALSE,
                                   what |-> "read_to_end", ok |-> TRUE])
          /\ UNCHANGED <<result, walk>>
       \/ /\ hist' = Append(hist, [path |-> <<>>, kind |-> "reader", sym |-> FALSE,
                                   what |-> "read_to_end", ok |-> FALSE])
          /\ Finish(Err("io"))
          /\ UNCHANGED <<buffer, hash>>
    /\ UNCHANGED <<fs, call, max_mtime, fs0>>

\* match buffer[..4]: the zip or tar reader is opened over the buffer, or the
\* call returns the format error.  The entries are what the reader decodes.
UntarMatch ==
    /\ pc = "u_match"
    /\ LET arm == Classify(buffer) IN
       \/ /\ arm = "panic"
          /\ Finish(Panic("range end index 4 out of range for slice"))
          /\ UNCHANGED <<call, hist>>
       \/ /\ arm = "other"
          /\ Finish(Err("not tar.gz or a .zip archive"))
          /\ UNCHANGED <<call, hist>>
       \/ /\ arm \in {"zip", "gz"}
          /\ hist' = Append(hist, [path |-> <<>>, kind |-> arm, sym |-> FALSE,
                                   what |-> "extract", ok |-> TRUE])
          /\ \E archive \in Archives :
               /\ call' = [call EXCEPT !.archive = archive]
               /\ walk' = archive
          /\ pc' = "u_extract"
          /\ UNCHANGED result
    /\ UNCHANGED <<fs, max_mtime, buffer, hash, fs0>>

\* faulty variant: a file in the way is unlinked before the entry is written, and
\* stays unlinked when the write fails
ExtractEntryUnlink(f, dest, e, io) ==
    LET out == Join(dest, e.path) IN
    IF io = "err" THEN [ok |-> FALSE, fs |-> f]
    ELSE IF e.kind = "dir" THEN CreateDirAll(f, out, -1)
    ELSE LET d == CreateDirAll(f, Parent(out), -1) IN
         IF ~d.ok THEN d
         ELSE IF out \in DOMAIN d.fs /\ d.fs[out].kind # "file" THEN [ok |-> FALSE, fs |-> d.fs]
         ELSE IF io = "partial" THEN [ok |-> FALSE, fs |-> [q \in DOMAIN d.fs \ {out} |-> d.fs[q]]]
         ELSE [ok |-> TRUE, fs |-> WriteFile(d.fs, out, e.data)]

\* one entry written below dest: a directory is made with its ancestors, a file
\* is created (or truncated) in its directory, made when missing
ExtractEntry(f, dest, e, io) ==
    LET out == Join(dest, e.path) IN
    IF io = "err" THEN [ok |-> FALSE, fs |-> f]
    ELSE IF e.kind = "dir" THEN CreateDirAll(f, out, -1)
    ELSE LET d == CreateDirAll(f, Parent(out), -1) IN
         IF ~d.ok THEN d
         ELSE IF out \in DOMAIN d.fs /\ d.fs[out].kind # "file" THEN [ok |-> FALSE, fs |-> d.fs]
         ELSE IF io = "partial" THEN [ok |-> FALSE, fs |-> WriteFile(d.fs, out, Partial)]
         ELSE [ok |-> TRUE, fs |-> WriteFile(d.fs, out, e.data)]

\* ZipArchive::extract(dest)? or Archive::unpack(dest)?, an entry a step; a
\* malformed archive or an I/O error ends the call with what was written so far
UntarExtract ==
    /\ pc = "u_extract"
    /\ \/ /\ walk # <<>>
          /\ \E io \in CopyIo :
               LET r == ExtractEntry(fs, call.dest, Head(walk), io) IN
               /\ fs' = r.fs
               /\ hist' = Append(hist, [path |-> Head(walk).path, kind |-> Head(walk).kind,
                                        sym |-> FALSE, what |-> "entry", ok |-> r.ok])
               /\ IF r.ok
                  THEN walk' = Tail(walk) /\ UNCHANGED <<pc, result>>
                  ELSE Finish(Err("io"))
       \/ \* the archive cannot be opened or decoded any further
          /\ hist' = Append(hist, [path |-> <<>>, kind |-> "archive", sym |-> FALSE,
                                   what |-> "entry", ok |-> FALSE])
          /\ Finish(Err("io"))
          /\ UNCHANGED fs
    /\ UNCHANGED <<call, max_mtime, buffer, hash, fs0>>

\* faulty variant: the first entry of any type
FirstEntry(f, dest, order, bad) ==
    LET es == SelectSeq(Listing(f, dest, order), LAMBDA n : n \notin bad)
    IN  IF es = <<>> THEN NoPath ELSE Append(dest, Head(es))

\* lines 152-161: the first entry of read_dir(dest) that can be read and whose
\* file_type() is a directory.  bad are the entries whose read fails.
FirstDir(f, dest, order, bad) ==
    LET dirs == SelectSeq(Listing(f, dest, order),
                          LAMBDA n : n \notin bad /\ f[Append(dest, n)].kind = "dir")
    IN  IF dirs = <<>> THEN NoPath ELSE Append(dest, Head(dirs))

\* fs::read_dir(dest)?, the scan, Ok((dir, hash))
UntarList ==
    /\ pc = "u_extract"
    /\ walk = <<>>
    /\ \/ /\ hist' = Append(hist, [path |-> call.dest, kind |-> "dir", sym |-> FALSE,
                                   what |-> "read_dir", ok |-> FALSE])
          /\ Finish(Err("io"))
       \/ \E order \in ListingOrders, bad \in SUBSET Children(fs, call.dest) :
            /\ hist' = Append(hist, [path |-> call.dest, kind |-> "dir", sym |-> FALSE,
                                     what |-> "read_dir", ok |-> TRUE,
                                     order |-> order, bad |-> bad])
            /\ Finish(Ok(FirstDir(fs, call.dest, order, bad), hash, NoTime))
    /\ UNCHANGED <<fs, call, max_mtime, buffer, hash, fs0>>

----------------------------------------------------------------------------
(* The filesystems a behaviour starts from *)

Absent == [kind |-> "absent", data |-> 0, mtime |-> 0, target |-> <<>>]
Times == 1..MaxTime
Data == {1, 2}

File(d, t) == [kind |-> "file", data |-> d, mtime |-> t, target |-> <<>>]
Dir(t) == [kind |-> "dir", data |-> 0, mtime |-> t, target |-> <<>>]
Link(to, t) == [kind |-> "symlink", data |-> 0, mtime |-> t, target |-> to]

\* the filesystem holding the nodes of c that are not Absent
MkFs(c) == [p \in {q \in DOMAIN c : c[q].kind # "absent"} |-> c[p]]

\* every node below a directory, none below a file or a link
WellFormed(c) ==
    \A p \in DOMAIN c : (c[p].kind # "absent" /\ Len(p) > 1) => c[Parent(p)].kind = "dir"

Tree(s, sa, sab, sb, x, xa, t, ta, tb) ==
    (<<"s">> :> s) @@ (<<"s", "a">> :> sa) @@ (<<"s", "a", "b">> :> sab) @@ (<<"s", "b">> :> sb)
    @@ (<<"x">> :> x) @@ (<<"x", "a">> :> xa)
    @@ (<<"t">> :> t) @@ (<<"t", "a">> :> ta) @@ (<<"t", "b">> :> tb)

Trees(S, SA, SAB, SB, X, XA, T, TA, TB) ==
    {MkFs(c) : c \in {c \in {Tree(s, sa, sab, sb, x, xa, t, ta, tb) :
                                s \in S, sa \in SA, sab \in SAB, sb \in SB, x \in X, xa \in XA,
                                t \in T, ta \in TA, tb \in TB} : WellFormed(c)}}

\* source trees with contents, and destinations: what copy_folder reads and writes
CopyTrees ==
    Trees({Dir(1)}, {Absent, Dir(1)} \cup {File(d, 1) : d \in Data}, {Absent, File(2, 1)},
          {Absent, File(2, 1), Link(ExtFile, 1), Link(<<"s", "a">>, 1), Link(Gone, 1)},
          {File(1, 1)}, {Absent},
          {Absent, Dir(1)}, {Absent, File(2, 1), Dir(1)}, {Absent})

\* source trees with mtimes and links: what mtime_recursive reads
MtimeTrees ==
    Trees({Dir(t) : t \in Times}, {Absent} \cup {Dir(t) : t \in Times} \cup {File(1, t) : t \in Times},
          {Absent, File(1, 1)},
          {Absent} \cup {Link(ExtFile, t) : t \in Times} \cup {Link(Gone, 1), Link(SrcRoot, 1)},
          {File(1, t) : t \in Times} \cup {Dir(1)}, {Absent, File(1, MaxTime)},
          {Absent}, {Absent}, {Absent})

\* destinations, empty or not, beside one source tree: what untar_archive writes
UntarTrees ==
    Trees({Dir(1)}, {Dir(1)}, {File(1, 1)}, {Link(ExtFile, 1)}, {File(1, 1)}, {Absent},
          {Absent, Dir(1)}, {Absent, File(2, 1), Dir(1)}, {Absent, File(2, 1)})

InitCommon ==
    /\ pc = "idle"
    /\ call = NoCall
    /\ walk = <<>>
    /\ max_mtime = NoTime
    /\ buffer = <<>>
    /\ hash = NoHash
    /\ result = NoResult
    /\ hist = <<>>
    /\ fs0 = fs

InitCopy == fs \in CopyTrees /\ InitCommon
InitMtime == fs \in MtimeTrees /\ InitCommon
InitUntar == fs \in UntarTrees /\ InitCommon
Init == InitUntar

NextCopy == CopyCall \/ CopyStep \/ CopyDone \/ Return
NextMtime == MtimeCall \/ MtimeStep \/ MtimeDone \/ Return
NextUntar == UntarCall \/ UntarRead \/ UntarMatch \/ UntarExtract \/ UntarList \/ Return
Next ==
    \/ CopyCall \/ CopyStep \/ CopyDone
    \/ MtimeCall \/ MtimeStep \/ MtimeDone
    \/ UntarCall \/ UntarRead \/ UntarMatch \/ UntarExtract \/ UntarList
    \/ Return

SpecCopy == InitCopy /\ [][NextCopy]_vars
SpecMtime == InitMtime /\ [][NextMtime]_vars
SpecUntar == InitUntar /\ [][NextUntar]_vars
Spec == Init /\ [][Next]_vars

----------------------------------------------------------------------------
(* copy_folder: the claims *)

CopyReturned == pc = "done" /\ call.op = "copy_folder"

\* the tree T: the paths at and below the source root when the call was entered
SourcePaths == {p \in DOMAIN fs0 : IsPrefix(call.from, p)}
Mirror(p) == Join(call.to, StripPrefix(p, call.from))

\* C7: when copy_folder returns success, every directory of the source tree is a
\* directory at the same relative path of the destination, every other entry is
\* a file there holding the bytes the source entry reads as; and whenever the
\* loop is about to copy a file, the file's directory exists in the destination.
CopyMirrorsTree ==
    /\ (CopyReturned /\ result.kind = "ok") =>
         \A p \in SourcePaths :
            /\ Mirror(p) \in DOMAIN fs
            /\ IF fs0[p].kind = "dir"
               THEN fs[Mirror(p)].kind = "dir"
               ELSE /\ fs[Mirror(p)].kind = "file"
                    /\ IsFile(fs0, p)
                    /\ fs[Mirror(p)].data = fs0[Stat(fs0, p)].data
    /\ (pc = "copy" /\ walk # <<>> /\ Head(walk).kind # "dir" /\ ~Head(walk).err) =>
         LET out == Mirror(Head(walk).path) IN
         /\ Parent(out) \in DOMAIN fs
         /\ fs[Parent(out)].kind = "dir"

\* a successful copy of a tree with a file in a subdirectory and a link to a file
CopyMirrorsTreeWitness ==
    /\ CopyReturned
    /\ result.kind = "ok"
    /\ <<"s", "a", "b">> \in DOMAIN fs0
    /\ <<"s", "b">> \in DOMAIN fs0
    /\ fs0[<<"s", "b">>].kind = "symlink"
    /\ <<"t">> \notin DOMAIN fs0
    /\ fs[<<"t", "a", "b">>].data = 2

\* C8: the loop runs only while every step so far succeeded; when copy_folder
\* returns an error, the failing step is the last one taken and was taken once,
\* every entry handled before it is in the destination, and the destination
\* path of every entry the walk had not reached is as it was before the call.
CopyStopsAtFirstFailure ==
    /\ (pc = "copy") => \A i \in DOMAIN hist : hist[i].ok
    /\ (CopyReturned /\ result.kind = "err") =>
         /\ hist # <<>>
         /\ ~hist[Len(hist)].ok
         /\ \A i \in 1..(Len(hist) - 1) :
               /\ hist[i].ok
               /\ Mirror(hist[i].path) \in DOMAIN fs
               /\ fs[Mirror(hist[i].path)].kind = (IF hist[i].kind = "dir" THEN "dir" ELSE "file")
               /\ hist[i].kind # "dir" => fs[Mirror(hist[i].path)].data = fs0[Stat(fs0, hist[i].path)].data
         /\ \A i, j \in DOMAIN hist : hist[i].path = hist[j].path => i = j
         /\ \A p \in SourcePaths \ {hist[i].path : i \in DOMAIN hist} :
               IF Mirror(p) \in DOMAIN fs0
               THEN Mirror(p) \in DOMAIN fs /\ fs[Mirror(p)] = fs0[Mirror(p)]
               ELSE Mirror(p) \notin DOMAIN fs
    /\ (CopyReturned /\ result.kind = "ok") => \A i \in DOMAIN hist : hist[i].ok

\* a copy that failed on its third entry, with the first two written and one
\* entry never reached
CopyStopsAtFirstFailureWitness ==
    /\ CopyReturned
    /\ result.kind = "err"
    /\ Len(hist) = 3
    /\ <<"t", "a">> \in DOMAIN fs
    /\ <<"t", "a">> \notin DOMAIN fs0
    /\ \E p \in SourcePaths : p \notin {hist[i].path : i \in DOMAIN hist} /\ Mirror(p) \notin DOMAIN fs

----------------------------------------------------------------------------
(* mtime_recursive: the claims *)

MtimeReturned == pc = "done" /\ call.op = "mtime_recursive"

\* the root's metadata was read and it is a directory: the walk ran
MtimeWalked ==
    /\ MtimeReturned
    /\ hist[1].ok
    /\ fs0[Stat(fs0, call.folder)].kind = "dir"

\* the entries the walk yielded, and of each the mtimes the filesystem holds
Visited == {hist[i] : i \in 2..Len(hist)}
OwnMtime(h) == fs0[LStat(fs0, h.path)].mtime
TargetMtime(h) == fs0[Stat(fs0, h.path)].mtime

\* the timestamps the claim has the visited entries contribute
Contributions ==
    {OwnMtime(h) : h \in {v \in Visited : v.what = "entry" /\ ~v.sym /\ v.st}}
    \cup {OwnMtime(h) : h \in {v \in Visited : v.what = "entry" /\ v.sym /\ v.lst}}
    \cup {TargetMtime(h) : h \in {v \in Visited : v.what = "entry" /\ v.sym /\ v.lst /\ v.st}}

\* C5: for a directory, the result is the largest timestamp among the visited
\* entries' contributions: a plain entry's own mtime, a link's own mtime and,
\* when it can be read, its target's mtime.  So the result is never older than
\* the own mtime of a visited link; and the children of a directory reached
\* through a link are visited too.
MtimeIsMaxOfContributions ==
    MtimeWalked =>
       /\ result.kind = "ok"
       /\ Contributions # {} =>
            /\ result.time \in Contributions
            /\ \A t \in Contributions : t <= result.time
       /\ \A h \in Visited : (h.what = "entry" /\ h.sym /\ h.lst) => result.time >= OwnMtime(h)
       /\ \A h \in Visited : (h.what = "entry" /\ h.sym /\ h.kind = "dir" /\ h.ok) =>
            \A n \in Children(fs0, Stat(fs0, h.path)) :
               \E v \in Visited : v.path = Append(h.path, n)

\* the walk met a link repointed after its target was last modified, and the
\* link's own mtime is the result
MtimeIsMaxOfContributionsWitness ==
    /\ MtimeWalked
    /\ \E h \in Visited :
          /\ h.what = "entry" /\ h.sym /\ h.lst /\ h.st
          /\ OwnMtime(h) > TargetMtime(h)
          /\ result.time = OwnMtime(h)
          /\ \A v \in Visited \ {h} : v.what = "entry" /\ v.st /\ OwnMtime(v) < OwnMtime(h)

\* C6: once the root's metadata is read and it is a directory, the call returns
\* a timestamp whatever entries fail, and the root's own mtime as read at the
\* start when no entry yields one; the call returns an error exactly when the
\* root's metadata cannot be read.
MtimeSkipsFailures ==
    MtimeReturned =>
       /\ result.kind \in {"ok", "err"}
       /\ (result.kind = "err") <=> ~hist[1].ok
       /\ MtimeWalked =>
            /\ result.kind = "ok"
            /\ result.time \in Times
            /\ (Contributions = {}) => result.time = fs0[Stat(fs0, call.folder)].mtime

\* a walk in which every entry failed, of a root older than its content
MtimeSkipsFailuresWitness ==
    /\ MtimeWalked
    /\ Len(hist) >= 3
    /\ \A h \in Visited : h.what = "walk" \/ (~h.lst /\ ~h.st)
    /\ \E h \in Visited : h.what = "entry" /\ OwnMtime(h) > result.time
    /\ result.time = fs0[call.folder].mtime

----------------------------------------------------------------------------
(* untar_archive: the claims *)

UntarReturned == pc = "done" /\ call.op = "untar_archive"

Steps(what) == {i \in DOMAIN hist : hist[i].what = what}

\* read_to_end returned the stream: buffer holds the input
UntarReadOk == UntarReturned /\ \E i \in Steps("read_to_end") : hist[i].ok

IsZipPrefix(buf) == Len(buf) >= 4 /\ buf[1] = 80 /\ buf[2] = 75 /\ buf[3] = 3 /\ buf[4] = 4
IsGzPrefix(buf) == Len(buf) >= 2 /\ buf[1] = 31 /\ buf[2] = 139
FormatError == result.kind = "err" /\ result.msg = "not tar.gz or a .zip archive"

\* C1: a stream shorter than 4 bytes makes untar_archive return an error, for
\* either value of compute_hash; it never panics on buffer[..4].
ShortBufferIsAnError ==
    (UntarReadOk /\ Len(buffer) < 4) => result.kind = "err"

\* C2: a buffer of 4 bytes or more that starts with neither magic is answered
\* with the format error; no extractor runs, the directory is not listed, and
\* the filesystem is the one before the call with dest_dir and its missing
\* ancestors made.
UnknownFormatIsRejected ==
    (UntarReadOk /\ Len(buffer) >= 4 /\ ~IsZipPrefix(buffer) /\ ~IsGzPrefix(buffer)) =>
       /\ FormatError
       /\ Steps("extract") = {} /\ Steps("entry") = {} /\ Steps("read_dir") = {}
       /\ \A p \in DOMAIN fs0 : p \in DOMAIN fs /\ fs[p] = fs0[p]
       /\ \A p \in DOMAIN fs \ DOMAIN fs0 : IsPrefix(p, call.dest) /\ fs[p].kind = "dir"
       /\ call.dest \in DOMAIN fs

\* 00 00 00 00 into a destination below a missing directory
UnknownFormatIsRejectedWitness ==
    /\ UntarReadOk
    /\ buffer = <<0, 0, 0, 0>>
    /\ FormatError
    /\ call.dest = <<"t", "a">>
    /\ <<"t">> \notin DOMAIN fs0
    /\ <<"t", "a">> \in DOMAIN fs

LowerHexChars == {"0", "1", "2", "3", "4", "5", "6", "7", "8", "9", "a", "b", "c", "d", "e", "f"}
HexValue(c) == CHOOSE v \in 0..15 : HexDigits[v + 1] = c
\* h is the lowercase hex text of the bytes d
IsLowerHexOf(h, d) ==
    /\ Len(h) = 2 * Len(d)
    /\ \A i \in DOMAIN h : h[i] \in LowerHexChars
    /\ \A i \in DOMAIN d : 16 * HexValue(h[2 * i - 1]) + HexValue(h[2 * i]) = d[i]

\* the hash the claim has the call hold for its input
HashAsRequested(h) ==
    IF call.compute_hash THEN Len(h) = 64 /\ IsLowerHexOf(h, Sha256(call.reader))
    ELSE h = NoHash

\* C3 as stated: on every branch the match takes (zip, gzip-tar, rejected), the
\* hash untar_archive returns is the digest of the input when compute_hash is
\* set, and absent when it is not.
HashReturnedOnEveryBranch ==
    (UntarReadOk /\ Len(buffer) >= 4) => HashAsRequested(result.hash)

\* C3, amended: the local hash holds the lowercase hex digest of the bytes read
\* before the match and on every branch of it, when compute_hash is set, and
\* None otherwise; a successful call returns that hash, and a call that ends in
\* an error, the rejected format included, returns none.
HashOfInputOnSuccess ==
    /\ (call.op = "untar_archive" /\ (pc \in {"u_match", "u_extract"} \/ UntarReadOk)) =>
          HashAsRequested(hash)
    /\ (UntarReturned /\ result.kind = "ok") => result.hash = hash
    /\ (UntarReturned /\ result.kind # "ok") => result.hash = NoHash

\* a gzip-tar stream, hashed and extracted into a directory
HashOfInputOnSuccessWitness ==
    /\ UntarReturned
    /\ result.kind = "ok"
    /\ call.compute_hash
    /\ IsGzPrefix(buffer)
    /\ Len(result.hash) = 64
    /\ result.path # NoPath

\* C4: the arm is a function of the prefix alone: the zip reader runs exactly
\* when the buffer starts 50 4B 03 04, the tar reader exactly when it starts
\* 1F 8B, every other buffer is rejected with the format error; an extractor
\* runs at most once a call.
ClassificationIsTotal ==
    UntarReadOk =>
       /\ (\E i \in Steps("extract") : hist[i].kind = "zip") <=> IsZipPrefix(buffer)
       /\ (\E i \in Steps("extract") : hist[i].kind = "gz") <=> IsGzPrefix(buffer)
       /\ FormatError <=> (~IsZipPrefix(buffer) /\ ~IsGzPrefix(buffer))
       /\ Cardinality(Steps("extract")) <= 1

\* the children of dest_dir that the scan read as directories, in listing order
ListedDirs(h) ==
    SelectSeq(Listing(fs, call.dest, h.order),
              LAMBDA n : fs[Append(call.dest, n)].kind = "dir")
ReadableDirs(h) == SelectSeq(ListedDirs(h), LAMBDA n : n \notin h.bad)

----------------------------------------------------------------------------
(* The frame of the three calls *)

\* the tree at root is the one the call was entered with
SameTree(root) ==
    /\ \A p \in DOMAIN fs0 : IsPrefix(root, p) => (p \in DOMAIN fs /\ fs[p] = fs0[p])
    /\ \A p \in DOMAIN fs : IsPrefix(root, p) => p \in DOMAIN fs0

====
